---- MODULE Spec2Model ----
(***************************************************************************)
(* The typed persistence layer of feathermail (src/src/db/mod.rs) over a   *)
(* sled Tree: get, get_all, get_last, set, delete and the raw accessors    *)
(* below them.                                                             *)
(*                                                                         *)
(* A Tree is a finite map from byte strings to byte strings, kept by the   *)
(* engine in byte-lexicographic key order.  Keys and values are sequences  *)
(* of bytes (0..255).  A Rust String is its UTF-8 bytes, so a string key   *)
(* is a byte sequence that passes String::from_utf8.                       *)
(***************************************************************************)
EXTENDS Integers, Sequences, FiniteSets

VARIABLES
    tree,      \* the sled Tree: [keys present -> value bytes]
    call,      \* the last completed call of the layer: [op, key, ret]
    written,   \* history: key -> the Invoice of the last successful set on it
               \*          that no later delete removed
    recent,    \* history: key of the most recent successful set (<<>>: none)
    hot,       \* SpecConc: the key the concurrent callers work on
    pc,        \* SpecConc: per caller, "idle" or "read" (between get and set)
    seen,      \* SpecConc: per caller, what its get returned
    stale,     \* SpecConc history: another caller's set landed since my get
    everSet,   \* SpecConc history: the Invoices passed to a successful set
    lost       \* SpecConc history: a set overwrote a write its caller never saw

vars == <<tree, call, written, recent, hot, pc, seen, stale, everSet, lost>>

----------------------------------------------------------------------------
(* Bounds and input sets *)

\* amounts of an Invoice range over 0..MaxAmount
MaxAmount == 1

\* "a", "aa", "e-acute" (C3 A9): the &str keys callers pass
ApiKeys == { <<97>>, <<97, 97>>, <<195, 169>> }

\* byte keys no &str can denote: a truncated 2-byte sequence and 0xFF
ForeignKeys == { <<195>>, <<255>> }

AllKeys == ApiKeys \cup ForeignKeys

\* The value type of set.  Invoice is declared outside src/; a struct of one
\* Option<u8> field stands for it: <<>> is None, <<x>> is Some(x).
Invoices == [amount : {<<>>} \cup { <<x>> : x \in 0..MaxAmount }]

\* value bytes another writer of the tree may have left: a Some cut short, a
\* tag that is neither 0 nor 1, and a well-formed None with a trailing byte
RawValues == { <<1>>, <<2, 0>>, <<0, 7>> }

Callers == {"c1", "c2"}

EmptyTree == [k \in {} |-> <<>>]

----------------------------------------------------------------------------
(* The engine's key order and iteration *)

Min(a, b) == IF a < b THEN a ELSE b

\* byte-lexicographic order of sled keys (IVec's Ord)
BytesLess(a, b) ==
    \E i \in 1..(Min(Len(a), Len(b)) + 1) :
        /\ \A j \in 1..(i - 1) : a[j] = b[j]
        /\ \/ i > Len(a) /\ i <= Len(b)
           \/ i <= Len(a) /\ i <= Len(b) /\ a[i] < b[i]

FirstKey(keys) == CHOOSE k \in keys : \A o \in keys : o = k \/ BytesLess(k, o)

RECURSIVE IterFrom(_, _)
IterFrom(db, keys) ==
    IF keys = {} THEN <<>>
    ELSE LET k == FirstKey(keys)
         IN  <<[key |-> k, value |-> db[k]]>> \o IterFrom(db, keys \ {k})

\* db.iter(): every entry, ascending by key
Iter(db) == IterFrom(db, DOMAIN db)

\* db.insert(key, bin)
Insert(db, key, bin) ==
    [k \in DOMAIN db \cup {key} |-> IF k = key THEN bin ELSE db[k]]

\* db.remove(key)
Remove(db, key) == [k \in DOMAIN db \ {key} |-> db[k]]

----------------------------------------------------------------------------
(* Codecs *)

\* String::from_utf8: is the byte sequence well-formed UTF-8, from index i on
RECURSIVE Utf8From(_, _)
Utf8From(b, i) ==
    IF i > Len(b) THEN TRUE
    ELSE LET c == b[i]
             cont(j) == j <= Len(b) /\ b[j] >= 128 /\ b[j] <= 191
         IN  IF c < 128 THEN Utf8From(b, i + 1)
             ELSE IF c >= 194 /\ c <= 223
                  THEN cont(i + 1) /\ Utf8From(b, i + 2)
             ELSE IF c >= 224 /\ c <= 239
                  THEN /\ cont(i + 1) /\ cont(i + 2)
                       /\ (c = 224 => b[i + 1] >= 160)
                       /\ (c = 237 => b[i + 1] <= 159)
                       /\ Utf8From(b, i + 3)
             ELSE IF c >= 240 /\ c <= 244
                  THEN /\ cont(i + 1) /\ cont(i + 2) /\ cont(i + 3)
                       /\ (c = 240 => b[i + 1] >= 144)
                       /\ (c = 244 => b[i + 1] <= 143)
                       /\ Utf8From(b, i + 4)
             ELSE FALSE

from_utf8(b) == Utf8From(b, 1)

\* bincode::serialize::<Invoice>: the Option's tag byte (0 None, 1 Some),
\* then the u8 of a Some.  encodes is the outcome of the value's Serialize
\* impl (FALSE: it returns an error).
serialize(data, encodes) ==
    IF encodes
    THEN [ok |-> TRUE,
          bytes |-> IF data.amount = <<>> THEN <<0>> ELSE <<1>> \o data.amount]
    ELSE [ok |-> FALSE, bytes |-> <<>>]

\* bincode::deserialize::<T>: fails on input that ends early and on a tag
\* other than 0/1; trailing bytes are allowed.  value is <<>> or <<the T>>.
deserialize(bytes) ==
    IF Len(bytes) = 0 THEN [ok |-> FALSE, value |-> <<>>]
    ELSE IF bytes[1] = 0 THEN [ok |-> TRUE, value |-> <<[amount |-> <<>>]>>]
    ELSE IF bytes[1] = 1 /\ Len(bytes) >= 2
         THEN [ok |-> TRUE, value |-> <<[amount |-> <<bytes[2]>>]>>]
    ELSE [ok |-> FALSE, value |-> <<>>]

----------------------------------------------------------------------------
(* Results.  kind is "Ok" or a DatabaseError kind; value holds the T of get  *)
(* and get_last, key the String of get_last, all the Vec of get_all, and     *)
(* data what a raw accessor returns.                                         *)

Err(kind) ==
    [kind |-> kind, key |-> <<>>, value |-> <<>>, all |-> <<>>]
OkUnit == Err("Ok")
OkValue(v) == [kind |-> "Ok", key |-> <<>>, value |-> v, all |-> <<>>]
OkRecord(k, v) == [kind |-> "Ok", key |-> k, value |-> v, all |-> <<>>]
OkAll(recs) == [kind |-> "Ok", key |-> <<>>, value |-> <<>>, all |-> recs]

RawErr(kind) == [kind |-> kind, data |-> <<>>]
RawOk(data) == [kind |-> "Ok", data |-> data]

----------------------------------------------------------------------------
(* Raw accessors.  ok is the outcome of the engine call: FALSE when sled    *)
(* returns Err(sled::Error).                                                *)

Reverse(q) == [i \in 1..Len(q) |-> q[Len(q) + 1 - i]]

\* db.get(key)?.ok_or(NotFound)?.to_vec()
get_from_tree(db, key, ok) ==
    IF ~ok THEN RawErr("SledError")
    ELSE IF key \notin DOMAIN db THEN RawErr("NotFound")
    ELSE RawOk(db[key])

\* faulty variant: the entries come back in descending key order
get_all_from_tree_rev(db, ok) ==
    IF ~ok THEN RawErr("Get") ELSE RawOk(Reverse(Iter(db)))

\* db.iter() collected; an Err item makes the whole collect Err(Get)
get_all_from_tree(db, ok) ==
    IF ~ok THEN RawErr("Get") ELSE RawOk(Iter(db))

\* faulty variant: the front end of the iteration instead of the back end
get_last_from_tree_first(db, ok) ==
    IF ~ok THEN RawErr("SledError")
    ELSE IF DOMAIN db = {} THEN RawErr("NotFound")
    ELSE RawOk(Iter(db)[1])

\* db.last()?: sled's last() is the back end of iter()
get_last_from_tree(db, ok) ==
    IF ~ok THEN RawErr("SledError")
    ELSE IF DOMAIN db = {} THEN RawErr("NotFound")
    ELSE RawOk(Iter(db)[Len(Iter(db))])

\* faulty variant: insert-if-absent, an existing entry is kept
set_to_tree_keep(db, key, bin, ok) ==
    IF ~ok THEN [ret |-> RawErr("Set"), tree |-> db]
    ELSE IF key \in DOMAIN db THEN [ret |-> RawOk(<<>>), tree |-> db]
    ELSE [ret |-> RawOk(<<>>), tree |-> Insert(db, key, bin)]

\* faulty variant: a write that stops after the first byte of the value
set_to_tree_torn(db, key, bin, ok) ==
    IF ok THEN [ret |-> RawOk(<<>>), tree |-> Insert(db, key, SubSeq(bin, 1, 1))]
    ELSE [ret |-> RawErr("Set"), tree |-> db]

\* db.insert(key, bin), Err mapped to Set
set_to_tree(db, key, bin, ok) ==
    IF ok THEN [ret |-> RawOk(<<>>), tree |-> Insert(db, key, bin)]
    ELSE [ret |-> RawErr("Set"), tree |-> db]

----------------------------------------------------------------------------
(* Typed wrappers *)

get_last(t, ok) ==
    LET binary_data == get_last_from_tree(t, ok)
    IN  IF binary_data.kind # "Ok" THEN Err(binary_data.kind)
        ELSE IF ~from_utf8(binary_data.data.key) THEN Err("Deserialize")
        ELSE LET value == deserialize(binary_data.data.value)
             IN  IF ~value.ok THEN Err("Deserialize")
                 ELSE OkRecord(binary_data.data.key, value.value)

\* faulty variant: an entry that does not decode is skipped
RECURSIVE get_all_loop_skip(_, _, _)
get_all_loop_skip(binary_data, i, all) ==
    IF i > Len(binary_data) THEN OkAll(all)
    ELSE IF ~from_utf8(binary_data[i].key) \/ ~deserialize(binary_data[i].value).ok
         THEN get_all_loop_skip(binary_data, i + 1, all)
    ELSE get_all_loop_skip(binary_data, i + 1,
             Append(all, [key |-> binary_data[i].key,
                          value |-> deserialize(binary_data[i].value).value]))

\* the for loop of get_all from entry i on, all being what was pushed so far
RECURSIVE get_all_loop(_, _, _)
get_all_loop(binary_data, i, all) ==
    IF i > Len(binary_data) THEN OkAll(all)
    ELSE IF ~from_utf8(binary_data[i].key) THEN Err("Deserialize")
    ELSE LET value == deserialize(binary_data[i].value)
         IN  IF ~value.ok THEN Err("Deserialize")
             ELSE get_all_loop(binary_data, i + 1,
                      Append(all, [key |-> binary_data[i].key,
                                   value |-> value.value]))

\* faulty variant: an empty tree is reported as NotFound
get_all_none(t, ok) ==
    LET binary_data == get_all_from_tree(t, ok)
    IN  IF binary_data.kind # "Ok" THEN Err(binary_data.kind)
        ELSE IF Len(binary_data.data) = 0 THEN Err("NotFound")
        ELSE get_all_loop(binary_data.data, 1, <<>>)

get_all(t, ok) ==
    LET binary_data == get_all_from_tree(t, ok)
    IN  IF binary_data.kind # "Ok" THEN Err(binary_data.kind)
        ELSE get_all_loop(binary_data.data, 1, <<>>)

get(t, key, ok) ==
    LET binary_data == get_from_tree(t, key, ok)
    IN  IF binary_data.kind # "Ok" THEN Err(binary_data.kind)
        ELSE LET value == deserialize(binary_data.data)
             IN  IF ~value.ok THEN Err("Deserialize") ELSE OkValue(value.value)

\* faulty variant: write-then-serialize, an empty placeholder is inserted first
set_write_first(t, key, data, encodes, ok) ==
    LET binary_data == serialize(data, encodes)
        placed == set_to_tree(t, key, <<>>, TRUE)
    IN  IF ~binary_data.ok THEN [ret |-> Err("Serialize"), tree |-> placed.tree]
        ELSE LET r == set_to_tree(t, key, binary_data.bytes, ok)
             IN  IF r.ret.kind # "Ok"
                 THEN [ret |-> Err("Communicate"), tree |-> r.tree]
                 ELSE [ret |-> OkUnit, tree |-> r.tree]

\* faulty variant: a failed insert is tried once more and the Set error passed through
set_retry(t, key, data, encodes, ok) ==
    LET binary_data == serialize(data, encodes)
    IN  IF ~binary_data.ok THEN [ret |-> Err("Serialize"), tree |-> t]
        ELSE LET r == set_to_tree(t, key, binary_data.bytes, ok)
                 again == set_to_tree(t, key, binary_data.bytes, TRUE)
             IN  IF r.ret.kind # "Ok"
                 THEN [ret |-> OkUnit, tree |-> again.tree]
                 ELSE [ret |-> OkUnit, tree |-> r.tree]

\* serialize, then set_to_tree; the bincode error of a failed serialize is
\* returned boxed (kind Serialize), a Set from set_to_tree as Communicate
set(t, key, data, encodes, ok) ==
    LET binary_data == serialize(data, encodes)
    IN  IF ~binary_data.ok THEN [ret |-> Err("Serialize"), tree |-> t]
        ELSE LET r == set_to_tree(t, key, binary_data.bytes, ok)
             IN  IF r.ret.kind # "Ok"
                 THEN [ret |-> Err("Communicate"), tree |-> r.tree]
                 ELSE [ret |-> OkUnit, tree |-> r.tree]

\* faulty variant: removing an absent key is a no-op that succeeds
delete_noop(t, key, ok) ==
    IF ~ok THEN [ret |-> Err("SledError"), tree |-> t]
    ELSE [ret |-> OkUnit, tree |-> Remove(t, key)]

\* faulty variant: every key that starts with key is removed
delete_prefix(t, key, ok) ==
    IF ~ok THEN [ret |-> Err("SledError"), tree |-> t]
    ELSE IF key \in DOMAIN t
         THEN [ret |-> OkUnit,
               tree |-> [k \in { x \in DOMAIN t :
                                   ~(Len(x) >= Len(key)
                                     /\ SubSeq(x, 1, Len(key)) = key) } |-> t[k]]]
    ELSE [ret |-> Err("NotFound"), tree |-> t]

\* tree.remove(key)?, None mapped to NotFound
delete(t, key, ok) ==
    IF ~ok THEN [ret |-> Err("SledError"), tree |-> t]
    ELSE IF key \in DOMAIN t THEN [ret |-> OkUnit, tree |-> Remove(t, key)]
    ELSE [ret |-> Err("NotFound"), tree |-> t]

----------------------------------------------------------------------------
(* Spec: one caller issuing calls one after another on a tree that may      *)
(* already hold an entry written by someone else.                           *)

\* env records the outcomes the call met: encodes (bincode::serialize
\* returned Ok; TRUE for calls that do not serialize) and ok (the engine call
\* returned Ok; TRUE when no engine call was made)
Call(op, key, encodes, ok, ret) ==
    [op |-> op, key |-> key, env |-> [encodes |-> encodes, ok |-> ok],
     ret |-> ret]

\* the tree as handed to the layer: empty, or one entry left by another writer
InitialTrees ==
    {EmptyTree} \cup
    { [x \in {k} |-> b] : k \in AllKeys, b \in RawValues }

NoCall == Call("none", <<>>, TRUE, TRUE, Err("none"))

conc == <<hot, pc, seen, stale, everSet, lost>>

ConcIdle ==
    /\ pc = [p \in Callers |-> "idle"]
    /\ seen = [p \in Callers |-> Err("none")]
    /\ stale = [p \in Callers |-> FALSE]
    /\ everSet = {}
    /\ lost = FALSE

Init ==
    /\ tree \in InitialTrees
    /\ call = NoCall
    /\ written = EmptyTree
    /\ recent = <<>>
    /\ hot = <<>>
    /\ ConcIdle

Get(key) ==
    \E ok \in BOOLEAN :
        /\ call' = Call("get", key, TRUE, ok, get(tree, key, ok))
        /\ UNCHANGED <<tree, written, recent, conc>>

GetAll ==
    \E ok \in BOOLEAN :
        /\ call' = Call("get_all", <<>>, TRUE, ok, get_all(tree, ok))
        /\ UNCHANGED <<tree, written, recent, conc>>

GetLast ==
    \E ok \in BOOLEAN :
        /\ call' = Call("get_last", <<>>, TRUE, ok, get_last(tree, ok))
        /\ UNCHANGED <<tree, written, recent, conc>>

Set(key, data) ==
    \* the engine is called, and may fail, only once the value has encoded
    \E encodes \in BOOLEAN : \E ok \in (IF encodes THEN BOOLEAN ELSE {TRUE}) :
        LET r == set(tree, key, data, encodes, ok)
        IN  /\ tree' = r.tree
            /\ call' = Call("set", key, encodes, ok, r.ret)
            /\ written' = IF r.ret.kind = "Ok"
                          THEN Insert(written, key, data) ELSE written
            /\ recent' = IF r.ret.kind = "Ok" THEN key ELSE recent
            /\ UNCHANGED conc

Delete(key) ==
    \E ok \in BOOLEAN :
        LET r == delete(tree, key, ok)
        IN  /\ tree' = r.tree
            /\ call' = Call("delete", key, TRUE, ok, r.ret)
            /\ written' = IF r.ret.kind = "Ok"
                          THEN Remove(written, key) ELSE written
            /\ UNCHANGED <<recent, conc>>

Next ==
    \/ \E key \in ApiKeys : Get(key)
    \/ GetAll
    \/ GetLast
    \/ \E key \in ApiKeys, data \in Invoices : Set(key, data)
    \/ \E key \in ApiKeys : Delete(key)

Spec == Init /\ [][Next]_vars

----------------------------------------------------------------------------
(* SpecConc: several callers on the same tree, each repeating get(hot) then *)
(* set(hot, v).  A call makes one engine call, which sled runs atomically,  *)
(* so a call is one step; the layer takes no lock between the two calls.    *)

ConcInit ==
    /\ tree = EmptyTree
    /\ call = NoCall
    /\ written = EmptyTree
    /\ recent = <<>>
    /\ hot \in ApiKeys
    /\ ConcIdle

CallerGet(p) ==
    /\ pc[p] = "idle"
    /\ \E ok \in BOOLEAN :
           seen' = [seen EXCEPT ![p] = get(tree, hot, ok)]
    /\ pc' = [pc EXCEPT ![p] = "read"]
    /\ stale' = [stale EXCEPT ![p] = FALSE]
    /\ UNCHANGED <<tree, call, written, recent, hot, everSet, lost>>

CallerSet(p, data) ==
    /\ pc[p] = "read"
    /\ \E encodes \in BOOLEAN : \E ok \in (IF encodes THEN BOOLEAN ELSE {TRUE}) :
           LET r == set(tree, hot, data, encodes, ok)
               done == r.ret.kind = "Ok"
           IN  /\ tree' = r.tree
               /\ everSet' = IF done THEN everSet \cup {data} ELSE everSet
               /\ lost' = (lost \/ (done /\ stale[p]))
               /\ stale' = [q \in Callers |->
                               IF q = p THEN FALSE
                               ELSE stale[q] \/ (done /\ pc[q] = "read")]
    /\ pc' = [pc EXCEPT ![p] = "idle"]
    /\ UNCHANGED <<call, written, recent, hot, seen>>

ConcNext ==
    \/ \E p \in Callers : CallerGet(p)
    \/ \E p \in Callers, data \in Invoices : CallerSet(p, data)

SpecConc == ConcInit /\ [][ConcNext]_vars

----------------------------------------------------------------------------
(* Properties *)

Decodable(t, k) == from_utf8(k) /\ deserialize(t[k]).ok

Greatest(keys) == CHOOSE k \in keys : \A o \in keys : o = k \/ BytesLess(o, k)

\* C1: a get on a key whose last successful set (not deleted since) stored v
\* returns Ok(v), v being the value of the most recent set on that key,
\* whenever the engine call of the get succeeds.
RoundTrip ==
    (call.op = "get" /\ call.env.ok /\ call.key \in DOMAIN written)
        => call.ret = OkValue(<<written[call.key]>>)

RoundTripSeen ==
    /\ call.op = "get" /\ call.ret.kind = "Ok"
    /\ call.key \in DOMAIN written
    /\ call.ret.value = <<written[call.key]>>
    /\ call.key # recent /\ recent \in DOMAIN written

\* C2: get and delete return NotFound only when the key is absent from the
\* tree, and always when it is absent and the engine call succeeds; a
\* successful delete leaves a tree on which get returns NotFound; set never
\* returns NotFound.
AbsentKeyStep ==
    /\ call'.op \in {"get", "delete"} =>
          /\ call'.ret.kind = "NotFound" => call'.key \notin DOMAIN tree
          /\ (call'.key \notin DOMAIN tree /\ call'.env.ok)
                => call'.ret = Err("NotFound")
          /\ (call'.key \in DOMAIN tree /\ call'.env.ok)
                => call'.ret.kind \in {"Ok", "Deserialize"}
    /\ (call'.op = "delete" /\ call'.ret.kind = "Ok")
          => get(tree', call'.key, TRUE) = Err("NotFound")
    /\ call'.op = "set" => call'.ret.kind # "NotFound"

AbsentKeyContract == [][AbsentKeyStep]_vars

\* a get that finds nothing under the key set most recently: it was deleted
AbsentAfterDelete ==
    /\ call.op = "get" /\ call.ret.kind = "NotFound"
    /\ call.key = recent

EmptyTreeResults ==
    DOMAIN tree = {} =>
        /\ (call.op = "get_last" /\ call.env.ok) => call.ret = Err("NotFound")
        /\ (call.op = "get_all" /\ call.env.ok) => call.ret = OkAll(<<>>)

\* get_all on a tree emptied by deletes
EmptyAfterDeletes ==
    /\ DOMAIN tree = {} /\ recent # <<>>
    /\ call.op = "get_all" /\ call.ret = OkAll(<<>>)

\* C5: when some entry of the tree has a key that is not UTF-8 or a value
\* that does not decode, and the engine call succeeds, get_all fails with
\* Deserialize and returns no record.
BatchAllOrNothing ==
    (/\ call.op = "get_all" /\ call.env.ok
     /\ \E k \in DOMAIN tree : ~Decodable(tree, k))
        => (call.ret = Err("Deserialize") /\ call.ret.all = <<>>)

\* get_all failed on a bad entry that sits between two well-formed ones
BadEntryInTheMiddle ==
    /\ call.op = "get_all" /\ call.ret.kind = "Deserialize"
    /\ \E a \in DOMAIN written, b \in DOMAIN written, x \in DOMAIN tree :
          /\ ~Decodable(tree, x)
          /\ BytesLess(a, x) /\ BytesLess(x, b)

\* C6: a set whose value fails to encode returns the Serialize failure and
\* leaves the tree, the prior value under the key included, as it was.
SerializeStep ==
    (call'.op = "set" /\ ~call'.env.encodes)
        => (call'.ret = Err("Serialize") /\ tree' = tree)

GetAllCompleteOrdered ==
    call.op = "get_all" =>
        /\ call.ret.kind = "Ok" =>
              LET all == call.ret.all
              IN  /\ { all[i].key : i \in 1..Len(all) } = DOMAIN tree
                  /\ Len(all) = Cardinality(DOMAIN tree)
                  /\ \A i \in 1..Len(all), j \in 1..Len(all) :
                        i < j => BytesLess(all[i].key, all[j].key)
                  /\ \A i \in 1..Len(all) :
                        /\ all[i].value = deserialize(tree[all[i].key]).value
                        /\ all[i].key \in DOMAIN written
                              => all[i].value = <<written[all[i].key]>>
        /\ (call.env.ok /\ \A k \in DOMAIN tree : Decodable(tree, k))
              => call.ret.kind = "Ok"

\* get_all returned three records, the key inserted last coming first
GetAllInsertedLastComesFirst ==
    /\ call.op = "get_all" /\ call.ret.kind = "Ok"
    /\ Len(call.ret.all) = 3
    /\ call.ret.all[1].key = recent

\* C8: a set whose value encodes but whose engine insert fails makes
\* set_to_tree fail with Set, returns Communicate to its caller, makes no
\* second attempt, and leaves the tree as it was.
EngineFailureStep ==
    (call'.op = "set" /\ call'.env.encodes /\ ~call'.env.ok) =>
        /\ call'.ret = Err("Communicate")
        /\ tree' = tree
        /\ \A data \in Invoices :
              set_to_tree(tree, call'.key, serialize(data, TRUE).bytes, FALSE).ret
                  = RawErr("Set")

WriteEngineFailure == [][EngineFailureStep]_vars

\* a set failed with Communicate on a key that holds a value written earlier
CommunicateOnHeldKey ==
    /\ call.op = "set" /\ call.ret.kind = "Communicate"
    /\ call.key \in DOMAIN written
    /\ deserialize(tree[call.key]).value = <<written[call.key]>>

\* C9: get, get_all and get_last leave the tree as it was; so does every
\* call that fails; a successful set or delete changes the entry of its key
\* only.
FrameStep ==
    /\ call'.op \in {"get", "get_all", "get_last"} => tree' = tree
    /\ call'.ret.kind # "Ok" => tree' = tree
    /\ (call'.op \in {"set", "delete"} /\ call'.ret.kind = "Ok") =>
          /\ \A k \in AllKeys \ {call'.key} :
                /\ k \in DOMAIN tree' <=> k \in DOMAIN tree
                /\ k \in DOMAIN tree => tree'[k] = tree[k]
          /\ call'.op = "set" => call'.key \in DOMAIN tree'
          /\ call'.op = "delete" => call'.key \notin DOMAIN tree'

Frame == [][FrameStep]_vars

\* a delete succeeded on "a" and "aa" is still there
DeleteLeftTheOthers ==
    /\ call.op = "delete" /\ call.ret.kind = "Ok" /\ call.key = <<97>>
    /\ <<97, 97>> \in DOMAIN tree

\* C10: with several callers, a get never returns a mixture: it returns
\* NotFound, an engine error, or a value that some set wrote whole; and the
\* layer does not keep another caller's set from landing between a caller's
\* get and its set (LostUpdate is reachable).
NoTornRead ==
    \A p \in Callers :
        pc[p] = "read" =>
            \/ seen[p] = Err("NotFound")
            \/ seen[p] = Err("SledError")
            \/ /\ seen[p].kind = "Ok"
               /\ \E v \in everSet : seen[p] = OkValue(<<v>>)

\* a caller's set overwrote a value that another caller set after the first
\* caller's get, and that the first caller never read
LostUpdate ==
    /\ lost
    /\ \A p \in Callers : pc[p] = "idle"
    /\ hot \in DOMAIN tree

====
